---- MODULE Spec2Model ----
(***************************************************************************)
(* Reconciliation of a testplan with simulation results, as implemented   *)
(* by testplanner/Testplan.py: Result, Testpoint.map_test_results and     *)
(* Testplan.map_test_results with its nested _process_testpoint.          *)
(*                                                                         *)
(* Python objects are modelled by records.  A Result that the caller      *)
(* supplied is shared by reference between the supplied list and the      *)
(* testpoints it is attached to: an attached entry carries the index      *)
(* (ref) of the supplied Result, and its mapped flag lives in `results`.  *)
(* A Result synthesised by the code has ref = 0.                          *)
(***************************************************************************)
EXTENDS Integers, Sequences, FiniteSets, TLC

\* ------------------------------------------------------------------ bounds

\* Largest number of testpoints of a loaded testplan.
MaxTestpoints == 2

\* Largest number of results handed to map_test_results.
MaxResults == 2

\* get_percentage is applied to value, total in 0..MaxCount.
MaxCount == 8

\* do_substitutions is applied to testpoints with up to MaxPatterns tests.
MaxPatterns == 2

\* _merge_dicts is applied to documents whose mappings nest up to MaxDepth
\* deep.
MaxDepth == 2

\* The resource mappings hold up to MaxRules testplan entries.
MaxRules == 2

\* The import_testplans lists of the documents on disk hold up to MaxImports
\* entries altogether.
MaxImports == 3

\* Stage names, in the order Python's string comparison gives them.
Stages == <<"N.A.", "V1", "V2">>

\* Testpoint names.  "t1" is also the name of a test; the other names are the
\* names of no test and are interchangeable, so the i-th testpoint of a plan
\* is named "t1" or FreshNames[i].
FreshNames == <<"tpA", "tpB", "tpC">>

\* The `tests` lists of the testpoints of a loaded testplan (after
\* do_substitutions): none, the "N/A" marker, two tests, one test twice.
TestLists == {<<>>, <<"N/A">>, <<"t1", "t2">>, <<"t2", "t2">>}

\* name, passing, total of the supplied results: passing, failing and not
\* run; "N/A" is a test name like any other to get_sim_results.
ResultPool ==
    {<<"t1", 1, 1>>, <<"t1", 0, 0>>, <<"t2", 0, 1>>, <<"t2", 1, 1>>, <<"N/A", 1, 1>>}

\* ----------------------------------------------------------------- helpers

Range(s) == {s[i] : i \in DOMAIN s}

StageSet == Range(Stages)

StageRank(s) == CHOOSE i \in DOMAIN Stages : Stages[i] = s

RECURSIVE Flatten(_)
\* Concatenation of a sequence of sequences.
Flatten(ss) == IF ss = <<>> THEN <<>> ELSE Head(ss) \o Flatten(Tail(ss))

\* ------------------------------------------------------------ get_percentage

\* The text get_percentage returns: "--%" (fmt "dash"), "100%" (fmt "int")
\* or "<whole>.<frac>%" (fmt "dec1"): a float that is_integer() is printed by
\* f"{perc}%" with its ".0", any other with one decimal, rounded half to even.
get_percentage(value, total) ==
    IF total = 0 THEN [fmt |-> "dash", whole |-> 0, frac |-> 0]
    ELSE IF value = total THEN [fmt |-> "int", whole |-> 100, frac |-> 0]
    ELSE LET num == value * 1000
             q == num \div total
             r == num % total
             tenths == IF 2 * r > total \/ (2 * r = total /\ q % 2 = 1)
                       THEN q + 1 ELSE q
         IN [fmt |-> "dec1", whole |-> tenths \div 10, frac |-> tenths % 10]

\* ---------------------------------------------------------- Element.has_tags

\* tag.startswith("-")
StartsWithDash(tag) == Len(tag) > 0 /\ SubSeq(tag, 1, 1) = "-"

\* Fault: a requested "-t" is looked up like any other tag.
has_tags_NoExclusion(self_tags, tags) ==
    \A tag \in tags : tag \in self_tags

\* Element.has_tags, self_tags being the element's tags.
has_tags(self_tags, tags) ==
    IF tags = {} THEN TRUE
    ELSE \A tag \in tags :
            IF StartsWithDash(tag)
            THEN SubSeq(tag, 2, Len(tag)) \notin self_tags
            ELSE tag \in self_tags

\* ------------------------------------------------- Testpoint.do_substitutions

\* A test of a testpoint as re.findall(r"{([A-Za-z0-9\_]+)}", test) reads it:
\* pieces of text and {wildcards}.
Text(t) == [wildcard |-> FALSE, text |-> t]

Wildcard(name) == [wildcard |-> TRUE, text |-> name]

RECURSIVE Render(_)
\* The test as a string.
Render(test) ==
    IF test = <<>> THEN ""
    ELSE (IF Head(test).wildcard THEN "{" \o Head(test).text \o "}"
          ELSE Head(test).text) \o Render(Tail(test))

RECURSIVE Dedup(_)
\* The keys of a dict comprehension over seq: first occurrences, in order.
Dedup(seq) ==
    IF seq = <<>> THEN <<>>
    ELSE LET init == Dedup(SubSeq(seq, 1, Len(seq) - 1))
             last == seq[Len(seq)]
         IN IF \E i \in DOMAIN init : init[i] = last THEN init
            ELSE Append(init, last)

\* re.findall(r"{([A-Za-z0-9\_]+)}", test)
FindAll(test) ==
    LET ws == SelectSeq(test, LAMBDA piece : piece.wildcard)
    IN [i \in DOMAIN ws |-> ws[i].text]

\* The values of the substitutions dictionary: a string or a list of strings.
Scalar(v) == [list |-> FALSE, values |-> <<v>>]

List(vs) == [list |-> TRUE, values |-> vs]

\* substitutions.get(item, ""), as the list `values`.
ValuesOf(substitutions, item) ==
    IF item \in DOMAIN substitutions THEN substitutions[item].values ELSE <<"">>

\* t.replace(f"{{{item}}}", v)
Replace(t, item, v) ==
    [i \in DOMAIN t |->
        IF t[i].wildcard /\ t[i].text = item THEN Text(v) ELSE t[i]]

RECURSIVE Resolve_ValuesOuter(_, _, _)
\* Fault: `for v in values for t in resolved`.
Resolve_ValuesOuter(resolved, items, substitutions) ==
    IF items = <<>> THEN resolved
    ELSE LET values == ValuesOf(substitutions, Head(items))
         IN Resolve_ValuesOuter(
               Flatten([j \in DOMAIN values |->
                          [i \in DOMAIN resolved |->
                             Replace(resolved[i], Head(items), values[j])]]),
               Tail(items), substitutions)

RECURSIVE Resolve(_, _, _)
\* `for item, value in subst.items()`: every test resolved so far, with every
\* value of the item.
Resolve(resolved, items, substitutions) ==
    IF items = <<>> THEN resolved
    ELSE LET values == ValuesOf(substitutions, Head(items))
         IN Resolve(
               Flatten([i \in DOMAIN resolved |->
                          [j \in DOMAIN values |->
                             Replace(resolved[i], Head(items), values[j])]]),
               Tail(items), substitutions)

\* Testpoint.do_substitutions: the new self.tests.
do_substitutions(tests, substitutions) ==
    Flatten([n \in DOMAIN tests |->
        LET resolved == Resolve(<<tests[n]>>, Dedup(FindAll(tests[n])), substitutions)
        IN [i \in DOMAIN resolved |-> Render(resolved[i])]])

\* ------------------------------------------------------------------ Result

\* Result.__init__: passing and total default to 0, mapped starts False.
Result(name, passing, total) ==
    [name |-> name, passing |-> passing, total |-> total, mapped |-> FALSE]

\* An entry of Testpoint.test_results: a reference to the supplied Result
\* results[ref] (ref > 0), or a Result the code made itself (ref = 0).
Attached(ref, tr) ==
    [ref |-> ref, name |-> tr.name, passing |-> tr.passing, total |-> tr.total]

\* --------------------------------------------------------------- Testpoint

\* Fault: Testpoint.__init__ never sets not_mapped.
Testpoint_NeverNotMapped(name, stage, tests) ==
    [name |-> name, stage |-> stage, tests |-> tests,
     not_mapped |-> FALSE, test_results |-> <<>>]

\* Testpoint.__init__: empty test_results; not_mapped iff tests == ["N/A"].
Testpoint(name, stage, tests) ==
    [name |-> name, stage |-> stage, tests |-> tests,
     not_mapped |-> (tests = <<"N/A">>), test_results |-> <<>>]

\* The indices of the supplied results whose name is in tp.tests, in list order.
RECURSIVE MatchingRefs(_, _, _)
MatchingRefs(tp, trs, i) ==
    IF i > Len(trs) THEN <<>>
    ELSE (IF trs[i].name \in Range(tp.tests) THEN <<i>> ELSE <<>>)
         \o MatchingRefs(tp, trs, i + 1)

\* Fault: Testpoint.map_test_results without the "not run" placeholders.
TestpointMapTestResults_NoNotRun(tp, trs) ==
    IF tp.tests = <<>>
    THEN [tp |-> [tp EXCEPT !.test_results = <<Attached(0, Result(tp.name, 0, 0))>>],
          results |-> trs]
    ELSE IF tp.not_mapped
    THEN [tp |-> tp, results |-> trs]
    ELSE LET refs == MatchingRefs(tp, trs, 1)
         IN [tp |-> [tp EXCEPT !.test_results =
                        @ \o [k \in 1..Len(refs) |-> Attached(refs[k], trs[refs[k]])]],
             results |-> [i \in DOMAIN trs |->
                            IF trs[i].name \in Range(tp.tests)
                            THEN [trs[i] EXCEPT !.mapped = TRUE]
                            ELSE trs[i]]]

\* Testpoint.map_test_results: the testpoint and the supplied results after it.
TestpointMapTestResults(tp, trs) ==
    IF tp.tests = <<>>
    THEN [tp |-> [tp EXCEPT !.test_results = <<Attached(0, Result(tp.name, 0, 0))>>],
          results |-> trs]
    ELSE IF tp.not_mapped
    THEN [tp |-> tp, results |-> trs]
    ELSE LET refs == MatchingRefs(tp, trs, 1)
             mapped == tp.test_results
                       \o [k \in 1..Len(refs) |-> Attached(refs[k], trs[refs[k]])]
             tests_mapped == {mapped[k].name : k \in DOMAIN mapped}
             missing == SelectSeq(tp.tests, LAMBDA t : t \notin tests_mapped)
             notrun == [k \in 1..Len(missing) |->
                          Attached(0, Result(missing[k], 0, 0))]
         IN [tp |-> [tp EXCEPT !.test_results = mapped \o notrun],
             results |-> [i \in DOMAIN trs |->
                            IF trs[i].name \in Range(tp.tests)
                            THEN [trs[i] EXCEPT !.mapped = TRUE]
                            ELSE trs[i]]]

\* ---------------------------------------------------------------- Testplan

\* Fault: the testpoints are left as they were created.
sort_NotSorted(tps) == tps

\* Testplan._sort on the testpoints: list.sort is stable, the key is the stage.
sort(tps) ==
    Flatten([i \in DOMAIN Stages |->
               SelectSeq(tps, LAMBDA tp : tp.stage = Stages[i])])

\* The testpoint lists Testplan._parse_testplan can leave: names are unique
\* (_create_testplan_elements) and the list is sorted by stage (_sort).
LoadedTestpoints ==
    {tps \in UNION {[1..n -> {Testpoint(nm, st, ts) :
                                nm \in {"t1"} \cup Range(FreshNames),
                                st \in StageSet, ts \in TestLists}]
                    : n \in 0..MaxTestpoints} :
        /\ \A i \in DOMAIN tps : tps[i].name \in {"t1", FreshNames[i]}
        /\ \A i, j \in DOMAIN tps : i # j => tps[i].name # tps[j].name
        /\ \A i, j \in DOMAIN tps :
              i < j => StageRank(tps[i].stage) <= StageRank(tps[j].stage)}

\* The lists of Result objects get_sim_results builds from a results file.
SuppliedResults ==
    UNION {[1..n -> {Result(r[1], r[2], r[3]) : r \in ResultPool}]
           : n \in 0..MaxResults}

VARIABLES
    testpoints,           \* Testplan.testpoints
    progress,             \* Testplan.progress
    test_results_mapped,  \* Testplan.test_results_mapped
    results,              \* the Result objects handed to map_test_results
    tests_seen,           \* map_test_results: names already counted
    totals,               \* map_test_results: stage -> total testpoint
    unmapped,             \* map_test_results: the "Unmapped tests" testpoint
    idx,                  \* map_test_results: position of `for tp in self.testpoints`
    pc,                   \* "ready", "map" (inside map_test_results), "done"
    call,                 \* the last call of a function or reader and its outcome
    files,                \* the testplan documents on disk: path -> parsed HJson
    tags,                 \* Testplan.__init__: the tags split off the filename
    obj,                  \* _parse_testplan: the merged document
    parsed,               \* _parse_testplan: the imported testplans already parsed
    imported_testplans,   \* _parse_testplan: the imports not parsed yet
    merged,               \* the documents that went into obj, in order
    covergroups,          \* Testplan.covergroups
    exit                  \* the error the run ended with ("" for none)

vars == <<testpoints, progress, test_results_mapped, results, tests_seen,
          totals, unmapped, idx, pc, call, files, tags, obj, parsed,
          imported_testplans, merged, covergroups, exit>>

\* The variables of the loader.
loaderVars == <<files, tags, obj, parsed, imported_testplans, merged,
                covergroups, exit>>

\* The loader is not part of the run: the Testplan is taken as loaded.
LoaderIdle ==
    /\ files = <<>>
    /\ tags = {}
    /\ obj = <<>>
    /\ parsed = {}
    /\ imported_testplans = <<>>
    /\ merged = <<>>
    /\ covergroups = <<>>
    /\ exit = ""

\* The stages of a testpoint list.
StagesOf(tps) == {tps[i].stage : i \in DOMAIN tps}

\* Testplan.__init__ after parsing: one zeroed progress entry per stage and "N.A.".
InitProgress(tps) ==
    [key \in StagesOf(tps) \cup {"N.A."} |->
        [passing |-> 0, written |-> 0, total |-> 0,
         progress |-> [fmt |-> "float", whole |-> 0, frac |-> 0]]]

NoTestpoint == Testpoint("", "N.A.", <<>>)

\* A call that has not returned yet.
Pending(fn, args) ==
    [fn |-> fn, args |-> args, outcome |-> "pending", value |-> <<>>]

Returned(fn, args, value) ==
    [fn |-> fn, args |-> args, outcome |-> "returned", value |-> value]

Raised(fn, args, exception) ==
    [fn |-> fn, args |-> args, outcome |-> exception, value |-> <<>>]

\* No function or reader has been called.
NoCall == [fn |-> "", args |-> <<>>, outcome |-> "", value |-> <<>>]

Init ==
    /\ testpoints \in LoadedTestpoints
    /\ progress = InitProgress(testpoints)
    /\ test_results_mapped = FALSE
    /\ results = <<>>
    /\ tests_seen = {}
    /\ totals = <<>>
    /\ unmapped = NoTestpoint
    /\ idx = 0
    /\ pc = "ready"
    /\ call = NoCall
    /\ LoaderIdle

\* SUMMARY_TOKEN and the name of a total row (format "md").
SUMMARY_TOKEN == "TOTAL"

TotalName(ms) ==
    IF ms = "N.A." THEN "**" \o SUMMARY_TOKEN \o "**"
    ELSE "**" \o SUMMARY_TOKEN \o " for " \o ms \o "**"

\* Fault: a result with total 0 counts as written.
ProgressEntry_WrittenAlways(p, tr) ==
    [p EXCEPT !.total = @ + 1,
              !.passing = IF tr.total # 0 /\ tr.passing = tr.total THEN @ + 1 ELSE @,
              !.written = @ + 1]

\* _process_testpoint, "Compute the testplan progress": the progress entry p
\* of the stage after counting result tr.
ProgressEntry(p, tr) ==
    [p EXCEPT !.total = @ + 1,
              !.passing = IF tr.total # 0 /\ tr.passing = tr.total THEN @ + 1 ELSE @,
              !.written = IF tr.total # 0 THEN @ + 1 ELSE @]

\* Fault: the grand total is not updated.
AddToTotals_StageOnly(tots, ms, tr) ==
    [tots EXCEPT ![ms].test_results[1].passing = @ + tr.passing,
                 ![ms].test_results[1].total = @ + tr.total]

\* _process_testpoint, "Compute the stage total & the grand total".
AddToTotals(tots, ms, tr) ==
    LET t1 == [tots EXCEPT ![ms].test_results[1].passing = @ + tr.passing,
                           ![ms].test_results[1].total = @ + tr.total]
    IN IF ms # "N.A."
       THEN [t1 EXCEPT !["N.A."].test_results[1].passing = @ + tr.passing,
                       !["N.A."].test_results[1].total = @ + tr.total]
       ELSE t1

\* The body of the loop of _process_testpoint for a result not counted yet.
CountResult(ms, tr, st) ==
    [progress |-> [st.progress EXCEPT ![ms] = ProgressEntry(@, tr)],
     totals |-> AddToTotals(st.totals, ms, tr),
     tests_seen |-> st.tests_seen \cup {tr.name}]

\* Fault: tests_seen is not consulted.
ProcessResult_NoSeen(ms, tr, st) == CountResult(ms, tr, st)

\* map_test_results._process_testpoint applied to one result of a testpoint of
\* stage ms; st holds progress, totals and tests_seen.  (`if not tr` never
\* holds: Result defines neither __bool__ nor __len__.)
ProcessResult(ms, tr, st) ==
    IF tr.name \in st.tests_seen THEN st ELSE CountResult(ms, tr, st)

RECURSIVE ProcessResults(_, _, _, _)
ProcessResults(ms, trs, k, st) ==
    IF k > Len(trs) THEN st
    ELSE ProcessResults(ms, trs, k + 1, ProcessResult(ms, trs[k], st))

\* map_test_results._process_testpoint.
_process_testpoint(testpoint, st) ==
    ProcessResults(testpoint.stage, testpoint.test_results, 1, st)

\* map_test_results up to the loop over the testpoints: the total testpoints,
\* the unmapped testpoint and the empty tests_seen.
BeginMapping(test_results) ==
    /\ results' = test_results
    /\ tests_seen' = {}
    /\ totals' = [ms \in StagesOf(testpoints) \cup {"N.A."} |->
                    [Testpoint("N.A.", ms, <<>>) EXCEPT
                        !.test_results = <<Attached(0, Result(TotalName(ms), 0, 0))>>]]
    /\ unmapped' = Testpoint("Unmapped tests", "N.A.", <<>>)
    /\ idx' = 1
    /\ pc' = "map"
    /\ UNCHANGED <<testpoints, progress, test_results_mapped>>

\* map_test_results is called with any list of Result objects.
MapTestResultsBegin ==
    /\ pc = "ready"
    /\ \E trs \in SuppliedResults : BeginMapping(trs)
    /\ call' = NoCall
    /\ UNCHANGED loaderVars

\* One iteration of `for tp in self.testpoints`.
MapTestpoint ==
    /\ pc = "map"
    /\ idx <= Len(testpoints)
    /\ LET m == TestpointMapTestResults(testpoints[idx], results)
           st == _process_testpoint(
                    m.tp, [progress |-> progress, totals |-> totals,
                           tests_seen |-> tests_seen])
       IN /\ testpoints' = [testpoints EXCEPT ![idx] = m.tp]
          /\ results' = m.results
          /\ progress' = st.progress
          /\ totals' = st.totals
          /\ tests_seen' = st.tests_seen
    /\ idx' = idx + 1
    /\ UNCHANGED <<test_results_mapped, unmapped, pc, call>>
    /\ UNCHANGED loaderVars

\* The stage totals, appended for every stage of the testpoints.  The set is
\* walked in an arbitrary order; the stable sort that follows puts each total
\* after the testpoints of its stage whatever that order was.
StageTotals(tps, tots) ==
    Flatten([i \in DOMAIN Stages |->
               IF Stages[i] \in StagesOf(tps) THEN <<tots[Stages[i]]>> ELSE <<>>])

\* The progress rate of each stage of the testpoint list; a stage with
\* total 0 is popped.
ProgressRates(tps, prog) ==
    [key \in {k \in DOMAIN prog : ~(k \in StagesOf(tps) /\ prog[k].total = 0)} |->
        IF key \in StagesOf(tps)
        THEN [prog[key] EXCEPT
                !.progress = get_percentage(prog[key].passing, prog[key].total)]
        ELSE prog[key]]

\* The indices 1..n in order.
Indices(n) == [i \in 1..n |-> i]

\* Fault: every supplied result is taken as unmapped.
UnmappedResults_All(trs) == [i \in 1..Len(trs) |-> Attached(i, trs[i])]

\* Fault: the test on the mapped flag is inverted.
UnmappedResults_Mapped(trs) ==
    LET refs == SelectSeq(Indices(Len(trs)), LAMBDA i : trs[i].mapped)
    IN [k \in 1..Len(refs) |-> Attached(refs[k], trs[refs[k]])]

\* [tr for tr in test_results if not tr.mapped]
UnmappedResults(trs) ==
    LET refs == SelectSeq(Indices(Len(trs)), LAMBDA i : ~trs[i].mapped)
    IN [k \in 1..Len(refs) |-> Attached(refs[k], trs[refs[k]])]

\* map_test_results after the loop: the unmapped testpoint, the totals added
\* to the testpoints and sorted, the progress rates.
MapTestResultsEnd ==
    /\ pc = "map"
    /\ idx > Len(testpoints)
    /\ LET um == [unmapped EXCEPT !.test_results = UnmappedResults(results)]
           st == _process_testpoint(
                    um, [progress |-> progress, totals |-> totals,
                         tests_seen |-> tests_seen])
           sorted == sort(testpoints \o StageTotals(testpoints, st.totals))
           tps == sorted
                  \o (IF um.test_results # <<>> THEN <<um>> ELSE <<>>)
                  \o (IF Cardinality(DOMAIN totals) > 2
                      THEN <<st.totals["N.A."]>> ELSE <<>>)
       IN /\ unmapped' = um
          /\ totals' = st.totals
          /\ tests_seen' = st.tests_seen
          /\ testpoints' = tps
          /\ progress' = ProgressRates(tps, st.progress)
    /\ test_results_mapped' = TRUE
    /\ pc' = "done"
    /\ UNCHANGED <<results, idx, call>>
    /\ UNCHANGED loaderVars

\* ------------------------------------------ map_test_results, called again

\* _process_testpoint on a progress map that may have lost the stage of the
\* testpoint (popped by an earlier invocation): the first result not seen
\* yet is added to tests_seen and `self.progress[ms]` raises KeyError.
ProcessTestpoint(testpoint, st) ==
    LET unseen == {k \in DOMAIN testpoint.test_results :
                      testpoint.test_results[k].name \notin st.tests_seen}
        first == CHOOSE k \in unseen : \A j \in unseen : k <= j
    IN IF testpoint.stage \notin DOMAIN st.progress /\ unseen # {}
       THEN [st EXCEPT !.raised = TRUE,
                       !.tests_seen = @ \cup {testpoint.test_results[first].name}]
       ELSE LET p == _process_testpoint(
                        testpoint, [progress |-> st.progress, totals |-> st.totals,
                                    tests_seen |-> st.tests_seen])
            IN [st EXCEPT !.progress = p.progress, !.totals = p.totals,
                          !.tests_seen = p.tests_seen]

RECURSIVE MapTestpoints(_, _)
\* `for tp in self.testpoints`, from the i-th testpoint on, up to a KeyError.
MapTestpoints(i, st) ==
    IF i > Len(st.testpoints) \/ st.raised THEN st
    ELSE LET m == TestpointMapTestResults(st.testpoints[i], st.results)
         IN MapTestpoints(i + 1,
                ProcessTestpoint(m.tp, [st EXCEPT !.testpoints[i] = m.tp,
                                                  !.results = m.results]))

\* The loop "Compute the progress rate for each stage" over the stages in
\* `stages`.
ProgressRatesOf(stages, prog) ==
    [key \in {k \in DOMAIN prog : ~(k \in stages /\ prog[k].total = 0)} |->
        IF key \in stages
        THEN [prog[key] EXCEPT
                !.progress = get_percentage(prog[key].passing, prog[key].total)]
        ELSE prog[key]]

\* map_test_results called once more on the reconciled Testplan, with the
\* Result objects of the first call.  A stage that was popped from the
\* progress map raises KeyError, in _process_testpoint or in the last loop;
\* that loop walks a set, so any of the other stages may have been handled
\* before the exception.
MapTestResultsAgain ==
    /\ pc = "done"
    /\ LET tots == [ms \in StagesOf(testpoints) \cup {"N.A."} |->
                      [Testpoint("N.A.", ms, <<>>) EXCEPT
                         !.test_results = <<Attached(0, Result(TotalName(ms), 0, 0))>>]]
           looped == MapTestpoints(1, [testpoints |-> testpoints, results |-> results,
                                       progress |-> progress, totals |-> tots,
                                       tests_seen |-> {}, raised |-> FALSE])
           um == [Testpoint("Unmapped tests", "N.A.", <<>>) EXCEPT
                    !.test_results = UnmappedResults(looped.results)]
           st == IF looped.raised THEN looped ELSE ProcessTestpoint(um, looped)
           sorted == sort(st.testpoints \o StageTotals(st.testpoints, st.totals))
           tps == sorted
                  \o (IF um.test_results # <<>> THEN <<um>> ELSE <<>>)
                  \o (IF Cardinality(DOMAIN tots) > 2
                      THEN <<st.totals["N.A."]>> ELSE <<>>)
           popped == StagesOf(tps) \ DOMAIN st.progress
       IN /\ results' = st.results
          /\ totals' = st.totals
          /\ tests_seen' = st.tests_seen
          /\ IF looped.raised
             THEN /\ testpoints' = st.testpoints
                  /\ progress' = st.progress
                  /\ unmapped' = Testpoint("Unmapped tests", "N.A.", <<>>)
                  /\ pc' = "exit"
             ELSE IF st.raised
             THEN /\ testpoints' = st.testpoints
                  /\ progress' = st.progress
                  /\ unmapped' = um
                  /\ pc' = "exit"
             ELSE IF popped # {}
             THEN /\ testpoints' = tps
                  /\ \E handled \in SUBSET (StagesOf(tps) \ popped) :
                        progress' = ProgressRatesOf(handled, st.progress)
                  /\ unmapped' = um
                  /\ pc' = "exit"
             ELSE /\ testpoints' = tps
                  /\ progress' = ProgressRatesOf(StagesOf(tps), st.progress)
                  /\ unmapped' = um
                  /\ pc' = "again"
          /\ exit' = IF pc' = "exit" THEN "KeyError" ELSE exit
          /\ call' = IF pc' = "exit"
                     THEN Raised("map_test_results", <<>>, "KeyError")
                     ELSE Returned("map_test_results", <<>>, <<>>)
    /\ UNCHANGED <<test_results_mapped, idx>>
    /\ UNCHANGED <<files, tags, obj, parsed, imported_testplans, merged,
                   covergroups>>

NextAgain ==
    \/ MapTestResultsBegin
    \/ MapTestpoint
    \/ MapTestResultsEnd
    \/ MapTestResultsAgain

SpecAgain == Init /\ [][NextAgain]_vars

\* --------------------------------------------------------- get_sim_results

\* The entries of "test_results" in the sim results file: those of
\* ResultPool, and entries without name, without passing, without total.
SimResultItems ==
    {[name |-> r[1], passing |-> r[2], total |-> r[3]] : r \in ResultPool}
        \cup {[passing |-> 1, total |-> 1],
              [name |-> "t1", total |-> 1],
              [name |-> "t2", passing |-> 0]}

SimResults(bound) == UNION {[1..n -> SimResultItems] : n \in 0..bound}

\* `item["name"]`, `item["passing"]`, `item["total"]` raise no KeyError.
WellFormed(item) == {"name", "passing", "total"} \subseteq DOMAIN item

\* The "covergroups" list of the sim results file.
FoundCovergroups ==
    {<<>>, <<"a_cg">>, <<"x_cg", "other_cg">>, <<"x_cg", "a_cg">>}

\* The covergroups of a loaded Testplan: unique names, sorted by name.
LoadedCovergroups ==
    {<<>>, <<[name |-> "a_cg"]>>, <<[name |-> "a_cg"], [name |-> "x_cg"]>>}

\* The testpoints of the Testplans get_sim_results is called on.
SimTestpoints ==
    {<<>>,
     <<Testpoint("tpA", "V1", <<"t1", "t2">>)>>,
     <<Testpoint("t1", "N.A.", <<>>), Testpoint("tpB", "V1", <<"t2", "t2">>)>>}

InitSimResults ==
    /\ testpoints \in SimTestpoints
    /\ progress = InitProgress(testpoints)
    /\ test_results_mapped = FALSE
    /\ results = <<>>
    /\ tests_seen = {}
    /\ totals = <<>>
    /\ unmapped = NoTestpoint
    /\ idx = 0
    /\ pc = "ready"
    /\ call = NoCall
    /\ files = <<>>
    /\ tags = {}
    /\ obj = <<>>
    /\ parsed = {}
    /\ imported_testplans = <<>>
    /\ merged = <<>>
    /\ covergroups \in LoadedCovergroups
    /\ exit = ""

ResultsOf(items) ==
    [i \in DOMAIN items |->
        Result(items[i].name, items[i].passing, items[i].total)]

\* Fault: an entry that lacks a key is skipped.
ParseResults_SkipMalformed(items) ==
    [ok |-> TRUE, test_results |-> ResultsOf(SelectSeq(items, WellFormed))]

\* `for item in test_results_`: the Result objects made until an entry
\* raises KeyError, if one does.
ParseResults(items) ==
    LET bad == {i \in DOMAIN items : ~WellFormed(items[i])}
        made == IF bad = {} THEN Len(items)
                ELSE (CHOOSE i \in bad : \A j \in bad : i <= j) - 1
    IN [ok |-> bad = {}, test_results |-> ResultsOf(SubSeq(items, 1, made))]

\* get_sim_results up to the loop of map_test_results: the entries are made
\* into Result objects, the first entry that lacks a key ends the run.
get_sim_results ==
    /\ pc = "ready"
    /\ \E items \in SimResults(MaxResults) :
          LET sim == ParseResults(items)
          IN IF sim.ok
             THEN /\ BeginMapping(sim.test_results)
                  /\ call' = Pending("get_sim_results", <<items>>)
                  /\ UNCHANGED loaderVars
             ELSE /\ pc' = "exit"
                  /\ exit' = "malformed"
                  /\ call' = Raised("get_sim_results", <<items>>, "SystemExit")
                  /\ UNCHANGED <<testpoints, progress, test_results_mapped,
                                 results, tests_seen, totals, unmapped, idx>>
               /\ UNCHANGED <<files, tags, obj, parsed, imported_testplans,
                              merged, covergroups>>

\* Fault: every found name is counted, declared or not.
MapCovergroups_CountFound(cgs, prog, cgs_found) ==
    IF cgs = <<>> THEN prog
    ELSE LET entry == [total |-> Len(cgs), written |-> Len(cgs_found),
                       passing |-> Len(cgs_found),
                       progress |-> get_percentage(Len(cgs_found), Len(cgs))]
         IN [key \in DOMAIN prog \cup {"Covergroups"} |->
               IF key = "Covergroups" THEN entry ELSE prog[key]]

\* map_covergroups: nothing without declared covergroups, else the entry
\* "Covergroups" of the progress map.
MapCovergroups(cgs, prog, cgs_found) ==
    IF cgs = <<>> THEN prog
    ELSE LET total == Len(cgs)
             written == Cardinality({i \in DOMAIN cgs :
                                       cgs[i].name \in Range(cgs_found)})
             entry == [total |-> total, written |-> written,
                       passing |-> written,
                       progress |-> get_percentage(written, total)]
         IN [key \in DOMAIN prog \cup {"Covergroups"} |->
               IF key = "Covergroups" THEN entry ELSE prog[key]]

\* `self.map_covergroups(sim_results.get("covergroups", []))`, after
\* map_test_results has returned.
map_covergroups ==
    /\ pc = "done"
    /\ \E cgs_found \in FoundCovergroups :
          /\ progress' = MapCovergroups(covergroups, progress, cgs_found)
          /\ call' = Returned("map_covergroups", <<cgs_found>>, <<>>)
    /\ UNCHANGED <<testpoints, test_results_mapped, results, tests_seen,
                   totals, unmapped, idx, pc>>
    /\ UNCHANGED loaderVars

NextSimResults ==
    \/ get_sim_results
    \/ MapTestpoint
    \/ MapTestResultsEnd
    \/ map_covergroups

SpecSimResults == InitSimResults /\ [][NextSimResults]_vars

\* ------------------------------------------------------------ the readers

\* The outcome of a call: a returned value or a raised exception.
\* `"" if tp.stage == "N.A." else tp.stage`
StageText(tp) == IF tp.stage = "N.A." THEN "" ELSE tp.stage

\* get_test_results_table, the rows appended for testpoint tp.
TableRowsOf(tp, is_new_stage, map_full_testplan, skip_stages) ==
    LET trs == SelectSeq(tp.test_results,
                         LAMBDA tr : ~(tr.total = 0 /\ ~map_full_testplan))
    IN [k \in DOMAIN trs |->
          [stage |-> IF ~skip_stages /\ is_new_stage /\ k = 1
                     THEN StageText(tp) ELSE "",
           tp |-> IF k = 1 /\ tp.name # "N.A." THEN tp.name ELSE "",
           test |-> trs[k].name,
           passing |-> trs[k].passing,
           total |-> trs[k].total,
           rate |-> get_percentage(trs[k].passing, trs[k].total)]]

\* get_test_results_table without the assertion: header choice and rows.
\* `list(stages)[0]` raises IndexError when there is no testpoint.
TestResultsTable(tps, map_full_testplan) ==
    LET stages == {StageText(tps[i]) : i \in DOMAIN tps}
        skip_stages == ~(Cardinality(stages) > 1 \/ stages # {""})
    IN IF tps = <<>>
       THEN Raised("get_test_results_table", <<map_full_testplan>>, "IndexError")
       ELSE Returned("get_test_results_table", <<map_full_testplan>>,
              [skip_stages |-> skip_stages,
               table |-> Flatten([i \in DOMAIN tps |->
                   TableRowsOf(tps[i],
                       StageText(tps[i]) #
                           (IF i = 1 THEN "" ELSE StageText(tps[i - 1])),
                       map_full_testplan, skip_stages)])])

\* get_progress_table without the assertion: one row per key of the progress
\* map (in sorted order) whose total is not 0.
ProgressTable(prog) ==
    LET keys == SelectSeq(Stages, LAMBDA k : k \in DOMAIN prog /\ prog[k].total # 0)
        skip_stage == DOMAIN prog = {"N.A."}
    IN Returned("get_progress_table", <<>>,
          [skip_stage |-> skip_stage,
           table |-> [i \in DOMAIN keys |->
                        [stage |-> IF keys[i] = "N.A." THEN "" ELSE keys[i],
                         values |-> prog[keys[i]]]]])

\* get_test_results_summary without the first assertion.
TestResultsSummary(tps) ==
    IF tps = <<>>
    THEN Raised("get_test_results_summary", <<>>, "IndexError")
    ELSE LET total == tps[Len(tps)]
             tr == total.test_results[1]
         IN IF total.name # "N.A." \/ total.stage # "N.A."
            THEN Raised("get_test_results_summary", <<>>, "AssertionError")
            ELSE Returned("get_test_results_summary", <<>>,
                   [Passing |-> tr.passing, Total |-> tr.total,
                    PassRate |-> get_percentage(tr.passing, tr.total)])

\* The names of the total rows (`tr.name.startswith("**TOTAL")`).
IsTotalRow(tr) == tr.name \in {TotalName(ms) : ms \in StageSet}

\* Every result attached to the testpoints, in list order, with the stage of
\* its testpoint; then those that are no total row and whose name was not
\* seen before (`tests_seen` of get_testplan_summary, update_stages_progress).
AttachedInOrder(tps) ==
    Flatten([i \in DOMAIN tps |->
               [k \in DOMAIN tps[i].test_results |->
                  [stage |-> tps[i].stage, tr |-> tps[i].test_results[k]]]])

FirstSeenRows(tps) ==
    LET all == AttachedInOrder(tps)
    IN SelectSeq(Indices(Len(all)),
                 LAMBDA i : /\ ~IsTotalRow(all[i].tr)
                            /\ \A j \in 1..(i - 1) :
                                  IsTotalRow(all[j].tr)
                                  \/ all[j].tr.name # all[i].tr.name)

\* The passing, written and total counts over the rows (indices into all).
CountRows(all, rows) ==
    [total |-> Len(rows),
     written |-> Len(SelectSeq(rows, LAMBDA i : all[i].tr.total # 0)),
     passing |-> Len(SelectSeq(rows, LAMBDA i :
                        all[i].tr.total # 0 /\ all[i].tr.passing = all[i].tr.total))]

\* get_testplan_summary (the link is left out).
TestplanSummary(tps) ==
    LET c == CountRows(AttachedInOrder(tps), FirstSeenRows(tps))
    IN Returned("get_testplan_summary", <<>>,
          [passing |-> c.passing, written |-> c.written, total |-> c.total,
           implemented |-> get_percentage(c.written, c.total),
           rate |-> get_percentage(c.passing, c.written)])

\* The stages_progress argument of update_stages_progress: None (taken as
\* the new, empty defaultdict it is replaced by) or the defaultdict an
\* earlier call returned for other testplans, as testplanner.py passes it.
Accumulators ==
    {<<>>,
     [ms \in {"V1"} |-> [total |-> 2, written |-> 1, passing |-> 1]],
     [ms \in {"N.A.", "V2"} |->
        IF ms = "V2" THEN [total |-> 2, written |-> 2, passing |-> 2]
        ELSE [total |-> 1, written |-> 1, passing |-> 0]]}

\* Fault: the counts of the earlier testplans are dropped.
UpdateStagesProgress_Fresh(tps, stages_progress) ==
    LET all == AttachedInOrder(tps)
        rows == FirstSeenRows(tps)
    IN Returned("update_stages_progress", <<stages_progress>>,
          [ms \in {all[rows[i]].stage : i \in DOMAIN rows} |->
              CountRows(all, SelectSeq(rows, LAMBDA i : all[i].stage = ms))])

\* update_stages_progress: the defaultdict gets an entry for every stage in
\* which a name is counted, and the counts are added to the entries.
UpdateStagesProgress(tps, stages_progress) ==
    LET all == AttachedInOrder(tps)
        rows == FirstSeenRows(tps)
        counted == {all[rows[i]].stage : i \in DOMAIN rows}
        Entry(ms) == IF ms \in DOMAIN stages_progress THEN stages_progress[ms]
                     ELSE [total |-> 0, written |-> 0, passing |-> 0]
        Counts(ms) == CountRows(all, SelectSeq(rows, LAMBDA i : all[i].stage = ms))
    IN Returned("update_stages_progress", <<stages_progress>>,
          [ms \in DOMAIN stages_progress \cup counted |->
              [total |-> Entry(ms).total + Counts(ms).total,
               written |-> Entry(ms).written + Counts(ms).written,
               passing |-> Entry(ms).passing + Counts(ms).passing]])

\* `assert self.test_results_mapped, "Have you invoked map_test_results()?"`
AssertMapped(fn, args, body) ==
    IF test_results_mapped THEN body ELSE Raised(fn, args, "AssertionError")

\* A reader is called between the other calls on the Testplan.
Idle == pc \in {"ready", "done"}

get_test_results_table ==
    /\ Idle
    /\ \E map_full_testplan \in BOOLEAN :
          call' = AssertMapped("get_test_results_table", <<map_full_testplan>>,
                               TestResultsTable(testpoints, map_full_testplan))
    /\ UNCHANGED <<testpoints, progress, test_results_mapped, results,
                   tests_seen, totals, unmapped, idx, pc>>
    /\ UNCHANGED loaderVars

get_progress_table ==
    /\ Idle
    /\ call' = AssertMapped("get_progress_table", <<>>, ProgressTable(progress))
    /\ UNCHANGED <<testpoints, progress, test_results_mapped, results,
                   tests_seen, totals, unmapped, idx, pc>>
    /\ UNCHANGED loaderVars

get_test_results_summary ==
    /\ Idle
    /\ call' = AssertMapped("get_test_results_summary", <<>>,
                            TestResultsSummary(testpoints))
    /\ UNCHANGED <<testpoints, progress, test_results_mapped, results,
                   tests_seen, totals, unmapped, idx, pc>>
    /\ UNCHANGED loaderVars

get_testplan_summary ==
    /\ Idle
    /\ call' = TestplanSummary(testpoints)
    /\ UNCHANGED <<testpoints, progress, test_results_mapped, results,
                   tests_seen, totals, unmapped, idx, pc>>
    /\ UNCHANGED loaderVars

update_stages_progress ==
    /\ Idle
    /\ \E stages_progress \in Accumulators :
          call' = UpdateStagesProgress(testpoints, stages_progress)
    /\ UNCHANGED <<testpoints, progress, test_results_mapped, results,
                   tests_seen, totals, unmapped, idx, pc>>
    /\ UNCHANGED loaderVars

Next ==
    \/ MapTestResultsBegin
    \/ MapTestpoint
    \/ MapTestResultsEnd

Spec == Init /\ [][Next]_vars

\* The Testplan with its readers: map_test_results and the progress and
\* summary readers, called in any order.
NextReaders ==
    \/ MapTestResultsBegin
    \/ MapTestpoint
    \/ MapTestResultsEnd
    \/ get_test_results_table
    \/ get_progress_table
    \/ get_test_results_summary
    \/ get_testplan_summary
    \/ update_stages_progress

SpecReaders == Init /\ [][NextReaders]_vars

\* Simulation results in which a test has the name of the grand total row
\* (a test name is any string of the results file).
TotalNamedResults ==
    UNION {[1..n -> {Result("t1", 1, 1), Result("t2", 0, 1),
                     Result(TotalName("N.A."), 1, 1)}]
           : n \in 0..MaxResults}

\* map_test_results called with such results.
MapTotalNamedResults ==
    /\ pc = "ready"
    /\ \E test_results \in TotalNamedResults : BeginMapping(test_results)
    /\ call' = NoCall
    /\ UNCHANGED loaderVars

NextSummary ==
    \/ MapTotalNamedResults
    \/ MapTestpoint
    \/ MapTestResultsEnd
    \/ get_testplan_summary

SpecSummary == Init /\ [][NextSummary]_vars

\* --------------------------------------------------------------- the loader

\* The values of a parsed HJson document, by Python type.
Str(v) == [kind |-> "str", val |-> v]

Lst(items) == [kind |-> "list", val |-> items]

Dict(d) == [kind |-> "dict", val |-> d]

Num(v) == [kind |-> "int", val |-> v]

\* The HJson value null, None in Python.
None == [kind |-> "none", val |-> <<>>]

\* dict.get(key, default)
Get(d, key, default) == IF key \in DOMAIN d THEN d[key].val ELSE default

RECURSIVE _merge_dicts(_, _)
\* _merge_dicts(list1, list2): ok is false when two items have conflicting
\* types (sys.exit(1)), val is list1 after the merge.
_merge_dicts(list1, list2) ==
    LET Item(key) ==
            \* `item1 = list1.get(key)`, `if item1 is None`
            IF key \notin DOMAIN list1 \/ list1[key].kind = "none"
            THEN [ok |-> TRUE, val |-> list2[key]]
            ELSE LET item1 == list1[key]
                     item2 == list2[key]
                 IN IF item1.kind = "list" /\ item2.kind = "list"
                    THEN [ok |-> TRUE, val |-> Lst(item1.val \o item2.val)]
                    ELSE IF item1.kind = "dict" /\ item2.kind = "dict"
                    THEN LET m == _merge_dicts(item1.val, item2.val)
                         IN [ok |-> m.ok, val |-> Dict(m.val)]
                    ELSE IF item1.kind = item2.kind
                    THEN [ok |-> TRUE, val |-> item1]
                    ELSE [ok |-> FALSE, val |-> item1]
    IN [ok |-> \A key \in DOMAIN list2 : Item(key).ok,
        val |-> [key \in DOMAIN list1 \cup DOMAIN list2 |->
                    IF key \in DOMAIN list2 THEN Item(key).val ELSE list1[key]]]

\* Element.__init__: 'tags' is optional.
TagsOf(raw_dict) == IF "tags" \in DOMAIN raw_dict THEN Range(raw_dict.tags) ELSE {}

\* Testplan.element_cls[kind](dict_entry): the element, with the tags
\* has_tags looks at and, for a testpoint, its tests as do_substitutions
\* will read them.  Testpoint.__init__ defaults the stage to "N.A.".
Element(kind, dict_entry) ==
    IF kind = "testpoint"
    THEN [item |-> Testpoint(dict_entry.name,
                             IF "stage" \in DOMAIN dict_entry
                             THEN dict_entry.stage ELSE "N.A.",
                             [i \in DOMAIN dict_entry.tests |->
                                Render(dict_entry.tests[i])]),
          tags |-> TagsOf(dict_entry),
          tests |-> dict_entry.tests]
    ELSE [item |-> [name |-> dict_entry.name],
          tags |-> TagsOf(dict_entry),
          tests |-> <<>>]

RECURSIVE CreateFrom(_, _, _, _, _)
\* _create_testplan_elements from entry i on; ok is false on a duplicate.
CreateFrom(kind, raw_dicts_list, requested, items, i) ==
    IF i > Len(raw_dicts_list) THEN [ok |-> TRUE, items |-> items]
    ELSE LET item == Element(kind, raw_dicts_list[i])
         IN IF \E k \in DOMAIN items : items[k].item.name = item.item.name
            THEN [ok |-> FALSE, items |-> items]
            ELSE CreateFrom(kind, raw_dicts_list, requested,
                            IF has_tags(item.tags, requested)
                            THEN Append(items, item) ELSE items,
                            i + 1)

\* Testplan._create_testplan_elements: item_names holds the names of items.
_create_testplan_elements(kind, raw_dicts_list, requested) ==
    CreateFrom(kind, raw_dicts_list, requested, <<>>, 1)

\* The substitution variables: every key of the merged document that is not
\* a reserved keyword.
rsvd_keywords == {"import_testplans", "testpoints", "covergroups"}

SubstitutionsOf(document) ==
    [k \in DOMAIN document \ rsvd_keywords |->
        IF document[k].kind = "list" THEN List(document[k].val)
        ELSE Scalar(document[k].val)]

\* Fault: the covergroups are filtered by the requested tags.
CovergroupTags_Requested(requested) == requested

\* The tags _parse_testplan hands to _create_testplan_elements for the
\* covergroups: `set()`.
CovergroupTags(requested) == {}

\* The covergroup names in str order, and _sort for the covergroups.
CovergroupNames == <<"a_cg", "x_cg">>

sort_covergroups(cgs) ==
    Flatten([i \in DOMAIN CovergroupNames |->
               SelectSeq(cgs, LAMBDA cg : cg.name = CovergroupNames[i])])

\* The paths of the testplan documents; the Testplan is given the first.
Paths == {"root", "a", "b"}

\* The import_testplans lists: any paths in any order, MaxImports entries
\* in all the documents together.
ImportLists(bound) == UNION {[1..n -> Paths] : n \in 0..bound}

ImportGraphs(bound) ==
    {g \in [Paths -> ImportLists(bound)] :
        Len(g["root"]) + Len(g["a"]) + Len(g["b"]) <= bound}

\* Entries of the testpoints and covergroups lists.  Two entries are named
\* tpA, with different tags; one has a {foo} wildcard, one neither stage nor
\* tags.
RawA1 ==
    [name |-> "tpA", stage |-> "V1", tags |-> <<"slow">>,
     tests |-> <<<<Text("x_"), Wildcard("foo")>>>>]

RawA2 == [name |-> "tpA", tags |-> <<"fast">>, tests |-> <<<<Text("plain")>>>>]

RawB == [name |-> "tpB", tests |-> <<>>]

RawC == [name |-> "tpC", stage |-> "V1", tests |-> <<>>]

RawTestpoints ==
    [root |-> {<<>>, <<RawA1>>, <<RawA1, RawA2>>, <<RawA1, RawB>>},
     a |-> {<<>>, <<RawA2>>, <<RawC, RawA2>>},
     b |-> {<<RawB>>}]

RawCovergroups ==
    [root |-> {<<>>, <<[name |-> "x_cg", tags |-> <<"slow">>]>>},
     a |-> {<<[name |-> "a_cg"]>>},
     b |-> {<<[name |-> "x_cg", tags |-> <<"fast">>]>>}]

\* A document: name, a substitution variable foo, and the lists it has
\* entries for (a key without entries is left out of the document).
Document(path, imports, tps, cgs) ==
    [key \in {"name", "foo"}
             \cup (IF imports # <<>> THEN {"import_testplans"} ELSE {})
             \cup (IF tps # <<>> THEN {"testpoints"} ELSE {})
             \cup (IF cgs # <<>> THEN {"covergroups"} ELSE {}) |->
        CASE key = "name" -> Str(path)
          [] key = "foo" -> Str(IF path = "root" THEN "a" ELSE "z")
          [] key = "import_testplans" -> Lst(imports)
          [] key = "testpoints" -> Lst(tps)
          [] key = "covergroups" -> Lst(cgs)]

FileSystems(bound) ==
    {[path \in Paths |-> Document(path, g[path], tps[path], cgs[path])] :
        g \in ImportGraphs(bound),
        tps \in {f \in [Paths -> UNION {RawTestpoints[q] : q \in Paths}] :
                    \A q \in Paths : f[q] \in RawTestpoints[q]},
        cgs \in {f \in [Paths -> UNION {RawCovergroups[q] : q \in Paths}] :
                    \A q \in Paths : f[q] \in RawCovergroups[q]}}

\* Testplan.__init__ is called with "root" or "root:<tag>".
TagRequests == {{}, {"fast"}, {"-slow"}}

\* Before Testplan.__init__ parses anything.
LoaderStart(file_system, requested) ==
    /\ files = file_system
    /\ tags = requested
    /\ obj = <<>>
    /\ parsed = {}
    /\ imported_testplans = <<>>
    /\ merged = <<>>
    /\ covergroups = <<>>
    /\ exit = ""
    /\ testpoints = <<>>
    /\ progress = <<>>
    /\ test_results_mapped = FALSE
    /\ results = <<>>
    /\ tests_seen = {}
    /\ totals = <<>>
    /\ unmapped = NoTestpoint
    /\ idx = 0
    /\ pc = "parse"
    /\ call = NoCall

InitLoader ==
    \E file_system \in FileSystems(MaxImports), requested \in TagRequests :
        LoaderStart(file_system, requested)

\* The import graphs alone: every document has the same entries in all of
\* them, and no tag is requested.
ImportFileSystems(bound) ==
    {[path \in Paths |->
        Document(path, g[path],
                 IF path = "root" THEN <<RawA1, RawB>>
                 ELSE IF path = "a" THEN <<RawA2>> ELSE <<RawB>>,
                 IF path = "root" THEN <<>>
                 ELSE IF path = "a" THEN <<[name |-> "a_cg"]>>
                 ELSE <<[name |-> "x_cg", tags |-> <<"fast">>]>>)] :
        g \in ImportGraphs(bound)}

InitImports ==
    \E file_system \in ImportFileSystems(MaxImports) : LoaderStart(file_system, {})

\* _parse_testplan up to the loop: the root document is parsed and its
\* imports are queued.
ParseRoot ==
    /\ pc = "parse"
    /\ obj' = files["root"]
    /\ parsed' = {}
    /\ imported_testplans' = Get(files["root"], "import_testplans", <<>>)
    /\ merged' = <<"root">>
    /\ pc' = "import"
    /\ UNCHANGED <<files, tags, covergroups, exit>>
    /\ UNCHANGED <<testpoints, progress, test_results_mapped, results,
                   tests_seen, totals, unmapped, idx, call>>

\* Fault: a testplan that was already parsed is skipped without an error.
Import_SkipParsed(st) ==
    LET testplan == Head(st.imported_testplans)
        data == files[testplan]
        m == _merge_dicts(st.obj, data)
    IN IF testplan \in st.parsed
       THEN [st EXCEPT !.imported_testplans = Tail(@)]
       ELSE [exit |-> IF m.ok THEN "" ELSE "cannot merge",
             parsed |-> st.parsed \cup {testplan},
             imported_testplans |->
                Tail(st.imported_testplans) \o Get(data, "import_testplans", <<>>),
             obj |-> IF m.ok THEN m.val ELSE st.obj,
             merged |-> IF m.ok THEN Append(st.merged, testplan) ELSE st.merged]

\* One iteration of `while imported_testplans`, st holding the variables of
\* the loop: the first testplan of the queue is popped; if it was parsed
\* before, the run exits, else it is parsed, its imports are queued and it
\* is merged into obj.
Import(st) ==
    LET testplan == Head(st.imported_testplans)
        data == files[testplan]
        m == _merge_dicts(st.obj, data)
    IN IF testplan \in st.parsed
       THEN [st EXCEPT !.exit = "circular import",
                       !.imported_testplans = Tail(@)]
       ELSE [exit |-> IF m.ok THEN "" ELSE "cannot merge",
             parsed |-> st.parsed \cup {testplan},
             imported_testplans |->
                Tail(st.imported_testplans) \o Get(data, "import_testplans", <<>>),
             obj |-> IF m.ok THEN m.val ELSE st.obj,
             merged |-> IF m.ok THEN Append(st.merged, testplan) ELSE st.merged]

ImportTestplan ==
    /\ pc = "import"
    /\ imported_testplans # <<>>
    /\ LET st == Import([exit |-> exit, parsed |-> parsed,
                         imported_testplans |-> imported_testplans,
                         obj |-> obj, merged |-> merged])
       IN /\ exit' = st.exit
          /\ pc' = IF st.exit = "" THEN "import" ELSE "exit"
          /\ parsed' = st.parsed
          /\ imported_testplans' = st.imported_testplans
          /\ obj' = st.obj
          /\ merged' = st.merged
    /\ UNCHANGED <<files, tags, covergroups>>
    /\ UNCHANGED <<testpoints, progress, test_results_mapped, results,
                   tests_seen, totals, unmapped, idx, call>>

\* The rest of _parse_testplan and of Testplan.__init__, once the imports
\* are merged: the elements are created and filtered, the tests substituted,
\* the lists sorted and the progress map set up.  The outcome is the error
\* the run exits with, if any, and the fields of the Testplan at that point.
ElementsOf(document, requested) ==
    LET raw_testpoints == Get(document, "testpoints", <<>>)
        raw_covergroups == Get(document, "covergroups", <<>>)
        tps == _create_testplan_elements("testpoint", raw_testpoints, requested)
        cgs == _create_testplan_elements("covergroup", raw_covergroups,
                                         CovergroupTags(requested))
        substitutions == SubstitutionsOf(document)
        created == [i \in DOMAIN tps.items |-> tps.items[i].item]
        created_cgs == [i \in DOMAIN cgs.items |-> cgs.items[i].item]
        substituted ==
            sort([i \in DOMAIN tps.items |->
                    [tps.items[i].item EXCEPT
                       !.tests = do_substitutions(tps.items[i].tests, substitutions)]])
    IN IF ~tps.ok
       THEN [exit |-> "duplicate testpoint", testpoints |-> <<>>,
             covergroups |-> <<>>, progress |-> <<>>]
       ELSE IF ~cgs.ok
       THEN [exit |-> "duplicate covergroup", testpoints |-> created,
             covergroups |-> <<>>, progress |-> <<>>]
       ELSE IF raw_testpoints = <<>> /\ raw_covergroups = <<>>
       THEN [exit |-> "no testpoints or covergroups", testpoints |-> created,
             covergroups |-> created_cgs, progress |-> <<>>]
       ELSE [exit |-> "", testpoints |-> substituted,
             covergroups |-> sort_covergroups(created_cgs),
             progress |-> InitProgress(substituted)]

CreateElements ==
    /\ pc = "import"
    /\ imported_testplans = <<>>
    /\ LET outcome == ElementsOf(obj, tags)
       IN /\ exit' = outcome.exit
          /\ pc' = IF outcome.exit = "" THEN "loaded" ELSE "exit"
          /\ testpoints' = outcome.testpoints
          /\ covergroups' = outcome.covergroups
          /\ progress' = outcome.progress
    /\ UNCHANGED <<files, tags, obj, parsed, imported_testplans, merged>>
    /\ UNCHANGED <<test_results_mapped, results, tests_seen, totals, unmapped,
                   idx, call>>

NextLoader ==
    \/ ParseRoot
    \/ ImportTestplan
    \/ CreateElements

SpecLoader == InitLoader /\ [][NextLoader]_vars

\* The import traversal of the loader: the root is parsed, and the loop over
\* the imports goes on while it can.
SpecImports ==
    /\ InitImports
    /\ [][NextLoader]_vars
    /\ WF_vars(ParseRoot)
    /\ WF_vars(ImportTestplan)

\* ---------------------------------------------------------- the functions

\* A call that has not run yet.
PercentageCalls ==
    {Pending("get_percentage", <<value, total>>) :
        value \in 0..MaxCount, total \in 0..MaxCount}

TestPatterns ==
    {<<Text("test_"), Wildcard("foo"), Text("_"), Wildcard("bar")>>,
     <<Wildcard("bar"), Text("_"), Wildcard("foo"), Text("_"), Wildcard("bar")>>,
     <<Text("x_"), Wildcard("foo")>>,
     <<Text("plain")>>}

SubstitutionValues ==
    [foo |-> {Scalar("a"), List(<<"a", "b">>), List(<<>>)},
     bar |-> {Scalar("1"), List(<<"1", "2">>), List(<<"1">>)}]

\* The substitutions dictionaries: any of the keys may be missing.
Substitutions ==
    UNION {[keys -> UNION {SubstitutionValues[k] : k \in keys}]
           : keys \in SUBSET {"foo", "bar"}}

SubstitutionCalls ==
    {Pending("do_substitutions", <<tests, substitutions>>) :
        tests \in UNION {[1..n -> TestPatterns] : n \in 0..MaxPatterns},
        substitutions \in {f \in Substitutions :
                              \A k \in DOMAIN f : f[k] \in SubstitutionValues[k]}}

\* The tags an element can carry and the tags that can be requested.
ElementTags == {"slow", "fast", "-slow"}

RequestedTags == {"slow", "fast", "-slow", "-fast"}

TagCalls ==
    {Pending("has_tags", <<self_tags, requested>>) :
        self_tags \in SUBSET ElementTags, requested \in SUBSET RequestedTags}

Calls == PercentageCalls \cup SubstitutionCalls \cup TagCalls

\* The values of a document that are not mappings: strings, a number, null
\* and lists.
Atoms == {Str("x"), Str("y"), Num(1), None, Lst(<<"p">>), Lst(<<"q">>)}

RECURSIVE NestedDicts(_)
\* The mappings below the top of a document, nesting up to depth deep: the
\* key k is absent, or has an atom or a mapping.
NestedDicts(depth) ==
    IF depth = 0 THEN {}
    ELSE {<<>>} \cup {[key \in {"k"} |-> v] :
                        v \in Atoms \cup {Dict(d) : d \in NestedDicts(depth - 1)}}

\* The documents: the keys k and n, each absent or with any value.
MergeDocuments(depth) ==
    LET values == Atoms \cup {Dict(d) : d \in NestedDicts(depth - 1)}
    IN UNION {[keys -> values] : keys \in SUBSET {"k", "n"}}

MergeCalls(depth) ==
    {Pending("_merge_dicts", <<list1, list2>>) :
        list1 \in MergeDocuments(depth), list2 \in MergeDocuments(depth)}

\* No Testplan is involved: its fields stay as an empty Testplan has them.
InitFunctions ==
    /\ testpoints = <<>>
    /\ progress = InitProgress(<<>>)
    /\ test_results_mapped = FALSE
    /\ results = <<>>
    /\ tests_seen = {}
    /\ totals = <<>>
    /\ unmapped = NoTestpoint
    /\ idx = 0
    /\ pc = "call"
    /\ call \in Calls
    /\ LoaderIdle

CallGetPercentage ==
    /\ pc = "call"
    /\ call.fn = "get_percentage"
    /\ call.outcome = "pending"
    /\ call' = Returned("get_percentage", call.args,
                        get_percentage(call.args[1], call.args[2]))
    /\ UNCHANGED <<testpoints, progress, test_results_mapped, results,
                   tests_seen, totals, unmapped, idx, pc>>
    /\ UNCHANGED loaderVars

CallDoSubstitutions ==
    /\ pc = "call"
    /\ call.fn = "do_substitutions"
    /\ call.outcome = "pending"
    /\ call' = Returned("do_substitutions", call.args,
                        do_substitutions(call.args[1], call.args[2]))
    /\ UNCHANGED <<testpoints, progress, test_results_mapped, results,
                   tests_seen, totals, unmapped, idx, pc>>
    /\ UNCHANGED loaderVars

CallHasTags ==
    /\ pc = "call"
    /\ call.fn = "has_tags"
    /\ call.outcome = "pending"
    /\ call' = Returned("has_tags", call.args,
                        has_tags(call.args[1], call.args[2]))
    /\ UNCHANGED <<testpoints, progress, test_results_mapped, results,
                   tests_seen, totals, unmapped, idx, pc>>
    /\ UNCHANGED loaderVars

\* sys.exit(1) raises SystemExit.
CallMergeDicts ==
    /\ pc = "call"
    /\ call.fn = "_merge_dicts"
    /\ call.outcome = "pending"
    /\ LET m == _merge_dicts(call.args[1], call.args[2])
       IN call' = IF m.ok THEN Returned("_merge_dicts", call.args, m.val)
                  ELSE Raised("_merge_dicts", call.args, "SystemExit")
    /\ UNCHANGED <<testpoints, progress, test_results_mapped, results,
                   tests_seen, totals, unmapped, idx, pc>>
    /\ UNCHANGED loaderVars

NextFunctions ==
    \/ CallGetPercentage
    \/ CallDoSubstitutions
    \/ CallHasTags

SpecFunctions == InitFunctions /\ [][NextFunctions]_vars

\* _merge_dicts alone, on every pair of documents.
InitMergeDicts ==
    /\ testpoints = <<>>
    /\ progress = InitProgress(<<>>)
    /\ test_results_mapped = FALSE
    /\ results = <<>>
    /\ tests_seen = {}
    /\ totals = <<>>
    /\ unmapped = NoTestpoint
    /\ idx = 0
    /\ pc = "call"
    /\ call \in MergeCalls(MaxDepth)
    /\ LoaderIdle

SpecMergeDicts == InitMergeDicts /\ [][CallMergeDicts]_vars

\* ------------------------------------------------------------ ResourceMap

\* TESTPLAN_LEVELS
TESTPLAN_LEVELS == <<"testplans", "testpoints", "tests">>

\* The names of the query: the testplan, its testpoint tpA and test t1;
\* NoName stands for None.
NoName == ""

QueryNames == {<<"plan", "tpA", "t1">>, <<"plan", "tpA", NoName>>}

\* The name patterns of the rule entries of a level: the name itself or, for
\* a test, a pattern matching every name, and the name of something else.
PatternsOf(level) ==
    {"other"} \cup (IF level = "testplans" THEN {"plan"}
                    ELSE IF level = "testpoints" THEN {"tpA"} ELSE {".*"})

\* `re.match(self.resolve_template(regex_template), str(string))` for these
\* patterns.
template_match(regex_template, string) == regex_template \in {".*", string}

\* The resource an entry of a level has under the key "source", if it has
\* one: a different one at every level.
SourceAt(level) ==
    IF level = "testplans" THEN "plan_src"
    ELSE IF level = "testpoints" THEN "point_src" ELSE "test_src"

RECURSIVE RuleEntries(_, _)
\* The entries of a level (the i-th of TESTPLAN_LEVELS): a name pattern, a
\* "source" or none, and below it no list of entries of the next level or a
\* list of up to `below` entries.
RuleEntries(i, below) ==
    LET level == TESTPLAN_LEVELS[i]
        lists == IF i = Len(TESTPLAN_LEVELS) THEN {<<>>}
                 ELSE UNION {[1..n -> RuleEntries(i + 1, below)] : n \in 0..below}
    IN {[key \in {"name"} \cup (IF src THEN {"source"} ELSE {})
                          \cup (IF list # <<>> THEN {TESTPLAN_LEVELS[i + 1]} ELSE {}) |->
            IF key = "name" THEN pattern
            ELSE IF key = "source" THEN SourceAt(level) ELSE list] :
          pattern \in PatternsOf(level), src \in BOOLEAN, list \in lists}

\* The resource mappings: up to bound testplan entries, one list entry at
\* most below each.
ResourceMaps(bound) ==
    {[key \in {"testplans"} |-> list] :
        list \in UNION {[1..n -> RuleEntries(1, 1)] : n \in 1..bound}}

\* expected_levels: None or a list of levels.
NoLevels == [none |-> TRUE, levels |-> {}]

ExpectedLevels ==
    {NoLevels} \cup {[none |-> FALSE, levels |-> ls] :
                        ls \in {{"tests"}, {"testpoints", "tests"}, {"testplans"}}}

ResourceCalls(bound) ==
    {Pending("ResourceMap.get", <<testplan_rules, names, expected_levels>>) :
        testplan_rules \in ResourceMaps(bound), names \in QueryNames,
        expected_levels \in ExpectedLevels}

NotFound == [found |-> FALSE, result |-> ""]

RECURSIVE ScanEntries(_, _, _, _, _, _)
RECURSIVE scan_tree(_, _, _, _, _)

\* `for entry in entries[level]`, from the i-th entry on.  The recursive
\* call is made without expected_levels, which is None by default.
ScanEntries(list, i, names, levels, expected_levels, resource_type) ==
    IF i > Len(list) THEN NotFound
    ELSE LET entry == list[i]
             level == Head(levels)
             rest == ScanEntries(list, i + 1, names, levels, expected_levels,
                                 resource_type)
         IN IF ~template_match(entry["name"], Head(names)) THEN rest
            ELSE IF /\ expected_levels.none \/ level \in expected_levels.levels
                    /\ resource_type \in DOMAIN entry
            THEN [found |-> TRUE, result |-> entry[resource_type]]
            ELSE IF Len(levels) > 1
            THEN LET below == scan_tree(entry, Tail(names), Tail(levels),
                                        NoLevels, resource_type)
                 IN IF below.found THEN below ELSE rest
            ELSE rest

\* ResourceMap.scan_tree: found is the value returned, result is
\* self.result.
scan_tree(entries, names, levels, expected_levels, resource_type) ==
    IF Head(names) = NoName THEN NotFound
    ELSE IF Head(levels) \notin DOMAIN entries THEN NotFound
    ELSE ScanEntries(entries[Head(levels)], 1, names, levels, expected_levels,
                     resource_type)

\* ResourceMap.get for the resource "source", as find_test_file asks for it;
\* the value is [found |-> FALSE, ...] for None.
CallResourceMapGet ==
    /\ pc = "call"
    /\ call.fn = "ResourceMap.get"
    /\ call.outcome = "pending"
    /\ call' = Returned("ResourceMap.get", call.args,
                        scan_tree(call.args[1], call.args[2], TESTPLAN_LEVELS,
                                  call.args[3], "source"))
    /\ UNCHANGED <<testpoints, progress, test_results_mapped, results,
                   tests_seen, totals, unmapped, idx, pc>>
    /\ UNCHANGED loaderVars

InitResourceMap ==
    /\ testpoints = <<>>
    /\ progress = InitProgress(<<>>)
    /\ test_results_mapped = FALSE
    /\ results = <<>>
    /\ tests_seen = {}
    /\ totals = <<>>
    /\ unmapped = NoTestpoint
    /\ idx = 0
    /\ pc = "call"
    /\ call \in ResourceCalls(MaxRules)
    /\ LoaderIdle

SpecResourceMap == InitResourceMap /\ [][CallResourceMapGet]_vars

\* ------------------------------------------------------------- properties

Done == pc = "done"

\* The total and unmapped testpoints map_test_results adds to the list.
Synthetic(tp) == tp.name \in {"N.A.", "Unmapped tests"}

\* The testpoints of the plan, in the order map_test_results walks them.
RealTestpoints == SelectSeq(testpoints, LAMBDA tp : ~Synthetic(tp))

\* Every testpoint _process_testpoint is applied to, in processing order.
Holders == RealTestpoints \o <<unmapped>>

NamesOf(tp) == {tp.test_results[k].name : k \in DOMAIN tp.test_results}

RefsOf(tp) == {tp.test_results[k].ref : k \in DOMAIN tp.test_results} \ {0}

\* For every name attached to one of the testpoints hs (in processing order):
\* the stage of the first testpoint that holds a result of that name, and the
\* passing and total of the first result of that name it holds.
FirstSeenOf(hs) ==
    [n \in UNION {NamesOf(hs[i]) : i \in DOMAIN hs} |->
        LET i == CHOOSE i \in DOMAIN hs :
                    /\ n \in NamesOf(hs[i])
                    /\ \A j \in 1..(i - 1) : n \notin NamesOf(hs[j])
            trs == hs[i].test_results
            k == CHOOSE k \in DOMAIN trs :
                    /\ trs[k].name = n
                    /\ \A j \in 1..(k - 1) : trs[j].name # n
        IN [stage |-> hs[i].stage, passing |-> trs[k].passing, total |-> trs[k].total]]

FirstSeen == FirstSeenOf(Holders)

RECURSIVE SumFn(_, _)
\* The sum of f[x] over x in S.
SumFn(f, S) ==
    IF S = {} THEN 0
    ELSE LET x == CHOOSE x \in S : TRUE IN f[x] + SumFn(f, S \ {x})

GrandTotal == totals["N.A."].test_results[1]

\* total, written, passing of a progress entry; zeros for a key that is absent.
CountsOf(key) ==
    IF key \in DOMAIN progress
    THEN <<progress[key].total, progress[key].written, progress[key].passing>>
    ELSE <<0, 0, 0>>

\* Each attached name is counted once over the stages and once in the grand
\* total, with the values of the first result of that name.
CountedOnce ==
    LET first == FirstSeen
        names == DOMAIN first
    IN /\ tests_seen = names
       /\ SumFn([s \in StageSet |-> CountsOf(s)[1]], StageSet) = Cardinality(names)
       /\ \A n \in names : CountsOf(first[n].stage)[1] >= 1
       /\ GrandTotal.passing = SumFn([n \in names |-> first[n].passing], names)
       /\ GrandTotal.total = SumFn([n \in names |-> first[n].total], names)

\* Testpoint tp holds a result named n, and every supplied result of that name.
HoldsName(tp, n) ==
    /\ n \in NamesOf(tp)
    /\ \A i \in DOMAIN results : results[i].name = n => i \in RefsOf(tp)

\* C1 as stated: after map_test_results every attached result name is counted
\* in one stage's progress entry and once in the grand total, at the first
\* testpoint holding it, and every testpoint that lists the name holds the result.
C1_CountedOnceAttachedToAllListing ==
    Done =>
        /\ CountedOnce
        /\ LET real == RealTestpoints
               names == DOMAIN FirstSeen
           IN \A t \in DOMAIN real : \A n \in names :
                 n \in Range(real[t].tests) => HoldsName(real[t], n)

\* C1 amended: the same, for every testpoint that lists the name and is not
\* marked "N/A" (a testpoint marked "N/A" is matched against no result).
C1_CountedOnceAttachedToAllMatched ==
    Done =>
        /\ CountedOnce
        /\ LET real == RealTestpoints
               names == DOMAIN FirstSeen
           IN \A t \in DOMAIN real : \A n \in names :
                 (n \in Range(real[t].tests) /\ ~real[t].not_mapped)
                    => HoldsName(real[t], n)

\* Two testpoints hold the same supplied result, which passed.
C1_Witness ==
    /\ Done
    /\ \E a, b \in DOMAIN RealTestpoints : \E i \in DOMAIN results :
          /\ a # b
          /\ i \in RefsOf(RealTestpoints[a]) \cap RefsOf(RealTestpoints[b])
          /\ results[i].passing = 1

PairwiseDistinctNames ==
    \A i, j \in DOMAIN results : i # j => results[i].name # results[j].name

\* C2: for supplied results with pairwise-distinct names the grand total's
\* passing and total are the sums of passing and total over the supplied results.
C2_GrandTotalIsSumOfResults ==
    (Done /\ PairwiseDistinctNames) =>
        /\ GrandTotal.passing
             = SumFn([i \in DOMAIN results |-> results[i].passing], DOMAIN results)
        /\ GrandTotal.total
             = SumFn([i \in DOMAIN results |-> results[i].total], DOMAIN results)

\* C3 as stated: a supplied result is in the "Unmapped tests" testpoint iff its
\* name is in no testpoint's tests, and then it is attached to no testpoint.
C3_UnmappedIffInNoTestpoint ==
    Done =>
        LET real == RealTestpoints IN
        \A i \in DOMAIN results :
            /\ i \in RefsOf(unmapped)
                 <=> \A t \in DOMAIN real : results[i].name \notin Range(real[t].tests)
            /\ i \in RefsOf(unmapped)
                 => \A t \in DOMAIN real : i \notin RefsOf(real[t])

\* C3 amended: a supplied result is in the "Unmapped tests" testpoint iff its
\* name is in the tests of no testpoint that is not marked "N/A", and then it
\* is attached to no testpoint.
C3_UnmappedIffInNoMatchedTestpoint ==
    Done =>
        LET real == RealTestpoints IN
        \A i \in DOMAIN results :
            /\ i \in RefsOf(unmapped)
                 <=> \A t \in DOMAIN real :
                        \/ real[t].not_mapped
                        \/ results[i].name \notin Range(real[t].tests)
            /\ i \in RefsOf(unmapped)
                 => \A t \in DOMAIN real : i \notin RefsOf(real[t])

\* One supplied result is unmapped and another is attached to a testpoint.
C3_Witness ==
    /\ Done
    /\ \E i, j \in DOMAIN results :
          /\ i \in RefsOf(unmapped)
          /\ \E t \in DOMAIN RealTestpoints : j \in RefsOf(RealTestpoints[t])

\* The step of map_test_results that fills the "Unmapped tests" testpoint.
PlacesUnmapped == pc = "map" /\ pc' = "done"

\* C4 as stated: a result placed in the "Unmapped tests" testpoint has mapped
\* false before the placement and true after it.
C4_UnmappedBecomesMapped ==
    [][PlacesUnmapped =>
         \A i \in RefsOf(unmapped') : ~results[i].mapped /\ results'[i].mapped]_vars

\* C4 amended: a result placed in the "Unmapped tests" testpoint has mapped
\* false before the placement and still false after it.
C4_UnmappedStaysUnmapped ==
    [][PlacesUnmapped =>
         /\ \A i \in RefsOf(unmapped') : ~results[i].mapped /\ ~results'[i].mapped
         /\ \A i \in DOMAIN results : ~results[i].mapped => i \in RefsOf(unmapped')]_vars

\* A result has been placed in the "Unmapped tests" testpoint.
C4_Witness == Done /\ unmapped.test_results # <<>>

\* The step of map_test_results that reconciles testpoints[idx].
MapsTestpoint == pc = "map" /\ idx <= Len(testpoints)

C6_EmptyTestpointCountsOnce ==
    [][(MapsTestpoint /\ testpoints[idx].tests = <<>>) =>
         LET tp == testpoints[idx] IN
            /\ testpoints'[idx].test_results
                 = <<[ref |-> 0, name |-> tp.name, passing |-> 0, total |-> 0]>>
            /\ progress'[tp.stage].total = progress[tp.stage].total + 1
            /\ progress'[tp.stage].written = progress[tp.stage].written
            /\ progress'[tp.stage].passing = progress[tp.stage].passing]_vars

\* C7: reconciling a testpoint whose tests are <<"N/A">> attaches nothing,
\* sets no mapped flag and changes no progress entry and no total.
C7_NotMappedChangesNothing ==
    [][(MapsTestpoint /\ testpoints[idx].tests = <<"N/A">>) =>
         /\ testpoints'[idx].test_results = <<>>
         /\ UNCHANGED <<testpoints, results, progress, totals, tests_seen, unmapped>>]_vars

\* A testpoint marked "N/A" was reconciled while a result named "N/A" or
\* another unmatched result was supplied.
C7_Witness ==
    /\ pc = "map"
    /\ idx > 1
    /\ testpoints[idx - 1].tests = <<"N/A">>
    /\ results # <<>>

\* C8: for every key of the progress map, total counts the names first seen
\* in that stage, written those with total # 0, passing those with total # 0
\* and passing = total; so passing <= written <= total.
C8_ProgressCountsFirstSeen ==
    Done =>
        LET first == FirstSeen IN
        \A key \in DOMAIN progress :
            LET seen == {n \in DOMAIN first : first[n].stage = key}
                run == {n \in seen : first[n].total # 0}
                pass == {n \in run : first[n].passing = first[n].total}
            IN /\ progress[key].total = Cardinality(seen)
               /\ progress[key].written = Cardinality(run)
               /\ progress[key].passing = Cardinality(pass)
               /\ progress[key].passing <= progress[key].written
               /\ progress[key].written <= progress[key].total

\* A stage counts a passing, a failing and a not-run name.
C8_Witness ==
    /\ Done
    /\ \E key \in DOMAIN progress :
          /\ progress[key].passing >= 1
          /\ progress[key].written > progress[key].passing
          /\ progress[key].total > progress[key].written

\* C9: after map_test_results no key of the progress map has total 0.
C9_NoZeroTotalStage ==
    Done => \A key \in DOMAIN progress : progress[key].total # 0

\* The testpoints of the plan share exactly one stage, S, and every supplied
\* result is mapped.
OneStageAllMapped(S) ==
    /\ Done
    /\ \A i \in DOMAIN results : results[i].mapped
    /\ StagesOf(RealTestpoints) = {S}

Occurrences(tps, P(_)) == Cardinality({i \in DOMAIN tps : P(tps[i])})

\* The layout stated for the testpoint list: per stage in stage order the real
\* testpoints (in their order) and then the total of the stage; then the
\* unmapped testpoint iff it holds a result; then the grand total iff the
\* real testpoints have more than one distinct stage.
StatedLayout ==
    LET real == RealTestpoints
        stages == StagesOf(real)
    IN Flatten([i \in DOMAIN Stages |->
                  IF Stages[i] \in stages
                  THEN SelectSeq(real, LAMBDA tp : tp.stage = Stages[i])
                       \o <<totals[Stages[i]]>>
                  ELSE <<>>])
       \o (IF unmapped.test_results # <<>> THEN <<unmapped>> ELSE <<>>)
       \o (IF Cardinality(stages) > 1 THEN <<totals["N.A."]>> ELSE <<>>)

\* C11: after map_test_results the testpoint list is the real testpoints in
\* stage order, each stage followed by its total, then the unmapped testpoint
\* iff a result is unmapped, then the grand total iff there is more than one
\* distinct stage; and no synthetic testpoint occurs more than once.
C11_LayoutOfTestpointList ==
    Done =>
        /\ testpoints = StatedLayout
        /\ Occurrences(testpoints, LAMBDA tp : tp.name = "Unmapped tests") <= 1
        /\ \A s \in StageSet :
              Occurrences(testpoints,
                          LAMBDA tp : tp.name = "N.A." /\ tp.stage = s) <= 1

Readers == {"get_test_results_table", "get_progress_table",
            "get_test_results_summary", "get_testplan_summary",
            "update_stages_progress"}

\* C12: a progress or summary reader called on a Testplan whose
\* test_results_mapped is false fails the assertion and returns no value.
C12_ReadersAssertMapped ==
    (call.fn \in Readers /\ ~test_results_mapped) => call.outcome = "AssertionError"

\* get_percentage has returned from the call with these arguments.
PercentageOf(value, total) ==
    /\ call.fn = "get_percentage"
    /\ call.outcome = "returned"
    /\ call.args = <<value, total>>

\* C13: get_percentage(value, total) is "--%" for total = 0, "100%" when
\* value/total*100 is 100, the integer without decimal point when it is
\* another integer, and otherwise the percentage with exactly one decimal.
C13_PercentageFormat ==
    \A value, total \in 0..MaxCount :
        PercentageOf(value, total) =>
            IF total = 0
            THEN call.value.fmt = "dash"
            ELSE IF (100 * value) % total = 0
            THEN /\ call.value.fmt = "int"
                 /\ call.value.whole = (100 * value) \div total
            ELSE /\ call.value.fmt = "dec1"
                 /\ LET tenths == 10 * call.value.whole + call.value.frac
                    IN 2 * (1000 * value - tenths * total) <= total
                       /\ 2 * (tenths * total - 1000 * value) <= total

RECURSIVE ProductOf(_, _)
\* The product of m[j], ..., m[Len(m)].
ProductOf(m, j) == IF j > Len(m) THEN 1 ELSE m[j] * ProductOf(m, j + 1)

\* The names stated for one pattern: one per choice of a value for each of
\* its distinct wildcards, the leftmost-appearing wildcard varying slowest.
StatedNames(test, substitutions) ==
    LET ws == Dedup(FindAll(test))
        m == [j \in DOMAIN ws |-> Len(substitutions[ws[j]].values)]
        ChoiceOf(n, j) == (((n - 1) \div ProductOf(m, j + 1)) % m[j]) + 1
        PlaceOf(w) == CHOOSE j \in DOMAIN ws : ws[j] = w
    IN [n \in 1..ProductOf(m, 1) |->
          Render([i \in DOMAIN test |->
                    IF test[i].wildcard
                    THEN Text(substitutions[test[i].text]
                                 .values[ChoiceOf(n, PlaceOf(test[i].text))])
                    ELSE test[i]])]

\* do_substitutions has returned, and every wildcard of its tests is bound.
SubstitutedAllBound ==
    /\ call.fn = "do_substitutions"
    /\ call.outcome = "returned"
    /\ \A n \in DOMAIN call.args[1] : \A i \in DOMAIN call.args[1][n] :
          call.args[1][n][i].wildcard
             => call.args[1][n][i].text \in DOMAIN call.args[2]

\* C14: do_substitutions expands each pattern into the product of the values
\* of its distinct wildcards, the leftmost-appearing wildcard varying slowest
\* and values in listed order, and concatenates the expansions in pattern order.
C14_SubstitutionsProduct ==
    SubstitutedAllBound =>
        call.value = Flatten([n \in DOMAIN call.args[1] |->
                                StatedNames(call.args[1][n], call.args[2])])

\* "test_{foo}_{bar}" with two values for each wildcard, after a plain test.
C14_Witness ==
    /\ SubstitutedAllBound
    /\ call.args[1] = <<<<Text("plain")>>,
                        <<Text("test_"), Wildcard("foo"), Text("_"), Wildcard("bar")>>>>
    /\ call.args[2] = [foo |-> List(<<"a", "b">>), bar |-> List(<<"1", "2">>)]
    /\ call.value = <<"plain", "test_a_1", "test_a_2", "test_b_1", "test_b_2">>

\* has_tags has returned.
TagsChecked == call.fn = "has_tags" /\ call.outcome = "returned"

\* C15: has_tags is true iff every requested tag without leading "-" is among
\* the element's tags and no requested "-t" has t among the element's tags.
C15_HasTagsIff ==
    TagsChecked =>
        LET own == call.args[1]
            requested == call.args[2]
            excluded == {t \in {"slow", "fast"} : ("-" \o t) \in requested}
            required == requested \ {"-" \o t : t \in {"slow", "fast"}}
        IN call.value = (required \subseteq own /\ excluded \cap own = {})

\* An element tagged "slow" and "fast" is asked for "fast" without "slow".
C15_Witness ==
    /\ TagsChecked
    /\ call.args = <<{"slow", "fast"}, {"fast", "-slow"}>>
    /\ call.value = FALSE

\* Testplan.__init__ has returned a Testplan.
Loaded == pc = "loaded"

\* The entries of the merged document.
MergedTestpoints == Get(obj, "testpoints", <<>>)

MergedCovergroups == Get(obj, "covergroups", <<>>)

\* The entries that satisfy the requested tags.
Passing(raw_dicts_list) ==
    SelectSeq(raw_dicts_list, LAMBDA raw : has_tags(TagsOf(raw), tags))

NamesIn(elements) == {elements[i].name : i \in DOMAIN elements}

\* C16 as stated: loaded with a non-empty tag request, a covergroup of the
\* merged document is kept iff it satisfies the requested tags.
C16_CovergroupsFiltered ==
    (Loaded /\ tags # {}) =>
        /\ Len(covergroups) = Len(Passing(MergedCovergroups))
        /\ NamesIn(covergroups) = NamesIn(Passing(MergedCovergroups))

\* C16 amended: loaded with a non-empty tag request, a testpoint of the merged
\* document is kept iff it satisfies the requested tags, and every covergroup
\* of the merged document is kept whatever its tags.
C16_OnlyTestpointsFiltered ==
    (Loaded /\ tags # {}) =>
        /\ Len(testpoints) = Len(Passing(MergedTestpoints))
        /\ NamesIn(testpoints) = NamesIn(Passing(MergedTestpoints))
        /\ Len(covergroups) = Len(MergedCovergroups)
        /\ NamesIn(covergroups) = NamesIn(MergedCovergroups)

\* Tag "fast" is requested; covergroup x_cg, tagged "slow", is kept while
\* testpoint tpA, tagged "slow", is dropped.
C16_Witness ==
    /\ Loaded
    /\ tags = {"fast"}
    /\ MergedCovergroups = <<[name |-> "x_cg", tags |-> <<"slow">>]>>
    /\ covergroups = <<[name |-> "x_cg"]>>
    /\ MergedTestpoints = <<RawA1, RawB>>
    /\ NamesIn(testpoints) = {}

\* Two entries of the list have the same name.
HasDuplicate(raw_dicts_list) ==
    \E i, j \in DOMAIN raw_dicts_list :
        i # j /\ raw_dicts_list[i].name = raw_dicts_list[j].name

\* C17: when the merged testpoints list or the merged covergroups list has two
\* entries of the same name, no Testplan is loaded: loading ends with the
\* duplicate error.
C17_DuplicateNamesRejected ==
    (pc \in {"loaded", "exit"} /\ imported_testplans = <<>> /\ exit # "circular import"
        /\ (HasDuplicate(MergedTestpoints) \/ HasDuplicate(MergedCovergroups)))
      => exit \in {"duplicate testpoint", "duplicate covergroup"}

\* C18: a loaded Testplan holds at least one testpoint or covergroup.
C18_LoadedIsNotEmpty ==
    Loaded => (testpoints # <<>> \/ covergroups # <<>>)

RECURSIVE ReachableFrom(_)
\* The documents the documents of S import, directly or transitively.
ReachableFrom(S) ==
    LET next == S \cup UNION {Range(Get(files[d], "import_testplans", <<>>)) : d \in S}
    IN IF next = S THEN S ELSE ReachableFrom(next)

ImportsOf(d) == ReachableFrom(Range(Get(files[d], "import_testplans", <<>>)))

\* A document of the import graph of the root is reachable from itself.
Circular ==
    /\ pc # "call"
    /\ files # <<>>
    /\ \E d \in {"root"} \cup ImportsOf("root") : d \in ImportsOf(d)

\* C19: when a document of the import graph is reachable from itself, loading
\* ends with the circular-import error, and no testpoint or covergroup has
\* been created.
C19_CircularImportEnds ==
    Circular ~> (/\ pc = "exit"
                 /\ exit = "circular import"
                 /\ testpoints = <<>>
                 /\ covergroups = <<>>)

\* root imports a, a imports b, b imports a: the error is raised.
C19_Witness ==
    /\ Get(files["root"], "import_testplans", <<>>) = <<"a">>
    /\ Get(files["a"], "import_testplans", <<>>) = <<"b">>
    /\ Get(files["b"], "import_testplans", <<>>) = <<"a">>
    /\ Circular
    /\ exit = "circular import"
    /\ merged = <<"root", "a", "b">>

\* C20: no document, the root included, goes into the merged document twice.
C20_MergedAtMostOnce ==
    \A i, j \in DOMAIN merged : i # j => merged[i] # merged[j]

RECURSIVE StatedMerge(_, _)
\* The merge as C21 states it: ok is false when the merge aborts.
StatedMerge(importer, imported) ==
    LET Both(key) ==
            LET item1 == importer[key]
                item2 == imported[key]
            IN IF item1.kind = "list" /\ item2.kind = "list"
               THEN [ok |-> TRUE, val |-> Lst(item1.val \o item2.val)]
               ELSE IF item1.kind = "dict" /\ item2.kind = "dict"
               THEN LET m == StatedMerge(item1.val, item2.val)
                    IN [ok |-> m.ok, val |-> Dict(m.val)]
               ELSE IF item1.kind = item2.kind /\ item1.kind \notin {"list", "dict"}
               THEN [ok |-> TRUE, val |-> item1]
               ELSE [ok |-> FALSE, val |-> item1]
        shared == DOMAIN importer \cap DOMAIN imported
    IN [ok |-> \A key \in shared : Both(key).ok,
        val |-> [key \in DOMAIN importer \cup DOMAIN imported |->
                    IF key \in shared THEN Both(key).val
                    ELSE IF key \in DOMAIN importer THEN importer[key]
                    ELSE imported[key]]]

MergeCalled == call.fn = "_merge_dicts" /\ call.outcome # "pending"

\* C21: _merge_dicts(importer, imported) carries over the keys of one side,
\* concatenates two lists, merges two mappings by the same rule, keeps the
\* importer's value of two scalars of the same type, and aborts on any other
\* combination of types.
C21_MergeRule ==
    MergeCalled =>
        LET stated == StatedMerge(call.args[1], call.args[2])
        IN IF stated.ok
           THEN call.outcome = "returned" /\ call.value = stated.val
           ELSE call.outcome = "SystemExit"

RECURSIVE BreadthFirst(_)
\* The documents in breadth-first order of the imports, from a queue of
\* documents still to visit (for an import graph without a cycle).
BreadthFirst(queue) ==
    IF queue = <<>> THEN <<>>
    ELSE <<Head(queue)>>
            \o BreadthFirst(Tail(queue)
                               \o Get(files[Head(queue)], "import_testplans", <<>>))

\* The entries of the testpoints lists that satisfy the requested tags: the
\* root's first, then those of the imports in breadth-first order.
DocumentOrder ==
    LET documents == BreadthFirst(<<"root">>)
    IN Passing(Flatten([i \in DOMAIN documents |->
                           Get(files[documents[i]], "testpoints", <<>>)]))

PositionOf(name, raw_dicts_list) ==
    CHOOSE i \in DOMAIN raw_dicts_list : raw_dicts_list[i].name = name

CovergroupRank(name) ==
    CHOOSE i \in DOMAIN CovergroupNames : CovergroupNames[i] = name

\* C22: a loaded Testplan has its testpoints in non-decreasing stage order,
\* two testpoints of the same stage in the order of the merged document (the
\* root's entries, then those of the imports in breadth-first order), and its
\* covergroups in non-decreasing name order.
C22_SortedStable ==
    Loaded =>
        /\ \A i, j \in DOMAIN testpoints :
              i < j =>
                /\ StageRank(testpoints[i].stage) <= StageRank(testpoints[j].stage)
                /\ testpoints[i].stage = testpoints[j].stage =>
                      PositionOf(testpoints[i].name, DocumentOrder)
                        < PositionOf(testpoints[j].name, DocumentOrder)
        /\ \A i, j \in DOMAIN covergroups :
              i < j => CovergroupRank(covergroups[i].name)
                         <= CovergroupRank(covergroups[j].name)

\* root lists tpA (stage V1, tagged slow) and tpB, and covergroup x_cg; it
\* imports a, which lists tpC (stage V1), tpA and covergroup a_cg.  Loaded
\* without the slow entries: tpB and tpA keep their order before tpC, and
\* a_cg comes before x_cg.
C22_Witness ==
    /\ Loaded
    /\ tags = {"-slow"}
    /\ NamesIn(DocumentOrder) = {"tpA", "tpB", "tpC"}
    /\ DocumentOrder[1].name = "tpB" /\ DocumentOrder[2].name = "tpC"
    /\ Len(testpoints) = 3
    /\ testpoints[1].name = "tpB"
    /\ testpoints[2].name = "tpA"
    /\ testpoints[3].name = "tpC"
    /\ MergedCovergroups[1].name = "x_cg"
    /\ Len(covergroups) = 2
    /\ covergroups[1].name = "a_cg"

\* get_sim_results has ended the run on a malformed entry.
Malformed == pc = "exit" /\ exit = "malformed"

\* C23: when an entry of the result set lacks name, passing or total, the
\* run ends with the data-format error and nothing was reconciled: no
\* testpoint has a result, no result is held or flagged, the progress
\* counters are as Testplan.__init__ left them and test_results_mapped is
\* false.
C23_MalformedAbortsBeforeMapping ==
    (/\ call.fn = "get_sim_results"
     /\ \E i \in DOMAIN call.args[1] : ~WellFormed(call.args[1][i]))
      => /\ Malformed
         /\ call.outcome = "SystemExit"
         /\ \A i \in DOMAIN testpoints : testpoints[i].test_results = <<>>
         /\ results = <<>>
         /\ unmapped = NoTestpoint
         /\ totals = <<>>
         /\ progress = InitProgress(testpoints)
         /\ test_results_mapped = FALSE

\* The entry t1 is well formed and is a test of testpoint tpA; the entry
\* after it has no passing.
C23_Witness ==
    /\ Malformed
    /\ Len(testpoints) = 1
    /\ testpoints[1].tests = <<"t1", "t2">>
    /\ call.args = <<<<[name |-> "t1", passing |-> 1, total |-> 1],
                       [name |-> "t1", total |-> 1]>>>>

\* C24: map_covergroups on a Testplan with declared covergroups sets
\* progress["Covergroups"] with total the number of declared covergroups and
\* written the number of declared covergroups whose name was found, and
\* leaves the other entries alone; without declared covergroups it leaves
\* the progress map unchanged.
C24_CovergroupProgress ==
    [][(pc = "done" /\ call'.fn = "map_covergroups") =>
          LET declared == NamesIn(covergroups)
              found == Range(call'.args[1])
          IN IF covergroups = <<>>
             THEN progress' = progress
             ELSE /\ "Covergroups" \in DOMAIN progress'
                  /\ progress'["Covergroups"].total = Cardinality(declared)
                  /\ progress'["Covergroups"].written
                        = Cardinality(declared \cap found)
                  /\ progress'["Covergroups"].written
                        <= progress'["Covergroups"].total
                  /\ DOMAIN progress' = DOMAIN progress \cup {"Covergroups"}
                  /\ \A key \in DOMAIN progress \ {"Covergroups"} :
                        progress'[key] = progress[key]]_vars

\* a_cg and x_cg are declared, x_cg and other_cg were found: 1 of 2.
C24_Witness ==
    /\ call.fn = "map_covergroups"
    /\ call.args = <<<<"x_cg", "other_cg">>>>
    /\ NamesIn(covergroups) = {"a_cg", "x_cg"}
    /\ progress["Covergroups"].total = 2
    /\ progress["Covergroups"].written = 1

TableShown ==
    /\ call.fn = "get_test_results_table"
    /\ call.outcome = "returned"
    /\ ~call.value.skip_stages

\* The rows of the table with the testpoint they come from (an index of the
\* testpoint list), in table order.
RowOwners(tps, map_full_testplan) ==
    Flatten([i \in DOMAIN tps |->
               [k \in DOMAIN SelectSeq(tps[i].test_results,
                        LAMBDA tr : ~(tr.total = 0 /\ ~map_full_testplan)) |-> i]])

\* C26: in the table with the stage column, the name of every stage that
\* has a row is in the first row of that stage and in no other row of it,
\* and the name of every testpoint is in the first row of that testpoint and
\* in no other row of it.
C26_NamesOnFirstRowOnly ==
    (TableShown /\ Done) =>
        LET table == call.value.table
            owner == RowOwners(testpoints, call.args[1])
            StageOf(r) == testpoints[owner[r]].stage
            FirstOfStage(r) == \A q \in 1..(r - 1) : StageOf(q) # StageOf(r)
            FirstOfTestpoint(r) == \A q \in 1..(r - 1) : owner[q] # owner[r]
        IN /\ Len(owner) = Len(table)
           /\ \A r \in DOMAIN table :
                 /\ table[r].stage = IF FirstOfStage(r)
                                      THEN StageText(testpoints[owner[r]]) ELSE ""
                 /\ testpoints[owner[r]].name # "N.A." =>
                       table[r].tp = IF FirstOfTestpoint(r)
                                     THEN testpoints[owner[r]].name ELSE ""

\* C27: after map_test_results the last item of the testpoint list is the
\* grand-total testpoint, so get_test_results_summary passes its assertions
\* and returns the grand-total sums.
C27_LastIsGrandTotal ==
    Done =>
        /\ testpoints # <<>>
        /\ testpoints[Len(testpoints)] = totals["N.A."]
        /\ call.fn = "get_test_results_summary" =>
              /\ call.outcome = "returned"
              /\ call.value.Passing = GrandTotal.passing
              /\ call.value.Total = GrandTotal.total

RECURSIVE ResourcesAt(_, _, _, _)
\* The resources of the entries at one of the wanted levels that match the
\* queried name of their level, as do the entries above them.
ResourcesAt(entries, names, levels, wanted) ==
    IF Head(names) = NoName \/ Head(levels) \notin DOMAIN entries THEN {}
    ELSE LET list == entries[Head(levels)]
             matching == {i \in DOMAIN list :
                             template_match(list[i]["name"], Head(names))}
         IN UNION {(IF Head(levels) \in wanted /\ "source" \in DOMAIN list[i]
                    THEN {list[i]["source"]} ELSE {})
                   \cup (IF Len(levels) > 1
                         THEN ResourcesAt(list[i], Tail(names), Tail(levels), wanted)
                         ELSE {}) : i \in matching}

\* C28: a resource that ResourceMap.get returns for given expected_levels is
\* the resource of a matching entry at one of these levels.
C28_ResourceFromExpectedLevel ==
    (/\ call.fn = "ResourceMap.get"
     /\ call.outcome = "returned"
     /\ ~call.args[3].none
     /\ call.value.found)
      => call.value.result \in ResourcesAt(call.args[1], call.args[2],
                                           TESTPLAN_LEVELS, call.args[3].levels)

\* The sum of one count over the stage entries of the progress map.
ProgressSum(field) ==
    LET keys == DOMAIN progress \ {"Covergroups"}
    IN SumFn([key \in keys |-> progress[key][field]], keys)

\* C29: after map_test_results, the passing, written and total that
\* get_testplan_summary returns are the sums of passing, written and total
\* over the stage entries of the progress map ("N.A." included,
\* "Covergroups" excluded).
C29_SummaryIsSumOfProgress ==
    (Done /\ call.fn = "get_testplan_summary") =>
        /\ call.outcome = "returned"
        /\ call.value.passing = ProgressSum("passing")
        /\ call.value.written = ProgressSum("written")
        /\ call.value.total = ProgressSum("total")

\* The counts of the entries of a progress map.
Counts(prog) ==
    [key \in DOMAIN prog |->
        [total |-> prog[key].total, written |-> prog[key].written,
         passing |-> prog[key].passing]]

\* C30: a second invocation of map_test_results with the same results is
\* rejected or leaves the reconciled model as the first invocation left it:
\* the progress counts, the stage and grand totals, the results attached to
\* each testpoint and the number of total and unmapped testpoints.
C30_SecondInvocationChangesNothing ==
    [][(pc = "done" /\ pc' \in {"again", "exit"}) =>
          /\ Counts(progress') = Counts(progress)
          /\ totals' = totals
          /\ Len(testpoints') = Len(testpoints)
          /\ \A i \in DOMAIN testpoints :
                /\ testpoints'[i].name = testpoints[i].name
                /\ testpoints'[i].test_results = testpoints[i].test_results]_vars

====
